---- MODULE Spec2Model ----
(***************************************************************************)
(* Model of the alak-gatekeeper admission pipeline                        *)
(* (src/alak-gatekeeper/alak-gatekeeper.go): client IP extraction, origin  *)
(* lookup, rule-key generation, cascading rule lookup, the hash-bucket     *)
(* drop decision and forwarding to the upstream.                           *)
(*                                                                         *)
(* Strings are sequences of one-character strings, so that trimming, case  *)
(* conversion, concatenation and hashing are computed as the code does.    *)
(***************************************************************************)
EXTENDS Integers, Sequences, FiniteSets, Bags, TLC

VARIABLES
    store,         \* rule store: key -> stored value (absent / corrupt / rule)
    pc,            \* position of proxyHandler: idle, geo, redis, forward, done
    req,           \* the inbound request (X-Forwarded-For header, RemoteAddr)
    ip,            \* local ip of proxyHandler
    geoCalls,      \* addresses looked up at the origin-metadata service
    geoAnswer,     \* what http.Get on the origin-metadata service returned
    meta,          \* local meta of proxyHandler, after cleanField
    ruleKeys,      \* local ruleKeys
    idx,           \* position of the range loop over ruleKeys
    found,         \* local found
    rule,          \* local rule
    bestKey,       \* local bestKey
    gets,          \* keys queried at the rule store, in order
    redisFailed,   \* a store get returned a transport error
    requests,      \* counter vector alak_requests_total (bag of label triples)
    drops,         \* counter vector alak_drops_total (bag of label triples)
    upstreamReqs,  \* requests sent to the upstream, in order
    upstreamAnswers, \* what the upstream answered to each of them
    upstreamResult,\* what client.Do on the upstream returned
    response,      \* what the caller receives
    kin,           \* input of a stand-alone buildRuleKeys evaluation (raw Meta)
    kout,          \* its result
    kpc,           \* its position: off, ready, built
    sniOverride,   \* ALAK_SNI_OVERRIDE of the transport with per-request SNI
    idleConns,     \* its idle connections: the server name each was dialled with
    flights,       \* the requests it carries: Host, position, connection
    hin,           \* input of a stand-alone hashIP evaluation (client address)
    hout,          \* the buckets its invocations returned, in order
    rdb,           \* the controller's view of the rule store: key -> value, expiry
    cpc,           \* position of a controller handler between its store commands
    ckey,          \* local key of that handler
    cur,           \* the rule that handler is about to write
    expiry,        \* local expiry of that handler
    cresp,         \* status of the last response a controller handler sent
    covered        \* some candidate key held a full-drop rule at every instant so far

vars == <<store, pc, req, ip, geoCalls, geoAnswer, meta, ruleKeys, idx, found, rule,
          bestKey, gets, redisFailed, requests, drops, upstreamReqs,
          upstreamAnswers, upstreamResult, response, kin, kout, kpc,
          sniOverride, idleConns, flights, hin, hout, rdb, cpc, ckey, cur,
          expiry, cresp, covered>>

pipeVars == <<store, pc, req, ip, geoCalls, geoAnswer, meta, ruleKeys, idx, found,
              rule, bestKey, gets, redisFailed, requests, drops, upstreamReqs,
              upstreamAnswers, upstreamResult, response>>

keyVars == <<kin, kout, kpc>>

poolVars == <<sniOverride, idleConns, flights>>

ctlVars == <<rdb, cpc, ckey, cur, expiry, cresp>>

auxVars == <<hin, hout, ctlVars, covered>>

-----------------------------------------------------------------------------
(* Strings *)

Lowers == <<"a","b","c","d","e","f","g","h","i","j","k","l","m",
            "n","o","p","q","r","s","t","u","v","w","x","y","z">>
Uppers == <<"A","B","C","D","E","F","G","H","I","J","K","L","M",
            "N","O","P","Q","R","S","T","U","V","W","X","Y","Z">>

IndexIn(c, tbl) ==
    IF \E i \in 1..Len(tbl) : tbl[i] = c
    THEN CHOOSE i \in 1..Len(tbl) : tbl[i] = c
    ELSE 0

UpperChar(c) == IF IndexIn(c, Lowers) > 0 THEN Uppers[IndexIn(c, Lowers)] ELSE c
LowerChar(c) == IF IndexIn(c, Uppers) > 0 THEN Lowers[IndexIn(c, Uppers)] ELSE c

\* strings.ToUpper / strings.ToLower
ToUpper(s) == [i \in 1..Len(s) |-> UpperChar(s[i])]
ToLower(s) == [i \in 1..Len(s) |-> LowerChar(s[i])]

IsSpace(c) == c = " "

\* strings.TrimSpace
RECURSIVE TrimLeft(_)
TrimLeft(s) == IF s # <<>> /\ IsSpace(Head(s)) THEN TrimLeft(Tail(s)) ELSE s
RECURSIVE TrimRight(_)
TrimRight(s) ==
    IF s # <<>> /\ IsSpace(s[Len(s)]) THEN TrimRight(SubSeq(s, 1, Len(s) - 1)) ELSE s
TrimSpace(s) == TrimRight(TrimLeft(s))

\* strings.Contains
Contains(s, sub) ==
    \E i \in 0..(Len(s) - Len(sub)) : SubSeq(s, i + 1, i + Len(sub)) = sub

\* all strings over alphabet of length at most n
RECURSIVE StringsUpTo(_, _)
StringsUpTo(alphabet, n) ==
    IF n = 0 THEN {<<>>}
    ELSE LET shorter == StringsUpTo(alphabet, n - 1)
         IN  shorter \cup {Append(s, c) : s \in shorter, c \in alphabet}

-----------------------------------------------------------------------------
(* cleanField, buildRuleKeys, hashIP *)

Dash == <<"-">>
Star == <<"*">>
Colon == <<":">>
RulePrefix == <<"r","u","l","e",":">>

\* Normalization: trim, treat "-" as empty, uppercase country.
cleanField(s, isCountry) ==
    LET t == TrimSpace(s)
        u == IF t = Dash THEN <<>> ELSE t
    IN  IF isCountry THEN ToUpper(u) ELSE u

CleanMeta(m) ==
    [asn     |-> cleanField(m.asn, FALSE),
     country |-> cleanField(m.country, TRUE),
     tsp     |-> cleanField(m.tsp, FALSE)]

\* fmt.Sprintf("rule:%s:%s:%s", a, c, t)
RuleKey(a, c, t) == RulePrefix \o a \o Colon \o c \o Colon \o t

GlobalKey == RuleKey(Star, Star, Star)

\* buildRuleKeys with the global key tried first
buildRuleKeysGlobalFirst(m) ==
    LET asnSet     == m.asn # <<>> /\ m.tsp # <<>>
        countrySet == m.country # <<>>
        asnKeys ==
            IF asnSet
            THEN IF countrySet
                 THEN << RuleKey(m.asn, m.country, m.tsp),
                         RuleKey(m.asn, m.country, Star),
                         RuleKey(m.asn, Star, m.tsp),
                         RuleKey(m.asn, Star, Star) >>
                 ELSE << RuleKey(m.asn, Star, m.tsp),
                         RuleKey(m.asn, Star, Star) >>
            ELSE <<>>
        countryKeys ==
            IF ~asnSet /\ countrySet
            THEN << RuleKey(Star, m.country, Star) >>
            ELSE <<>>
    IN  << GlobalKey >> \o asnKeys \o countryKeys

\* buildRuleKeys with the two single-wildcard keys in the other order
buildRuleKeysSwapped(m) ==
    LET asnSet     == m.asn # <<>> /\ m.tsp # <<>>
        countrySet == m.country # <<>>
        asnKeys ==
            IF asnSet
            THEN IF countrySet
                 THEN << RuleKey(m.asn, m.country, m.tsp),
                         RuleKey(m.asn, Star, m.tsp),
                         RuleKey(m.asn, m.country, Star),
                         RuleKey(m.asn, Star, Star) >>
                 ELSE << RuleKey(m.asn, Star, m.tsp),
                         RuleKey(m.asn, Star, Star) >>
            ELSE <<>>
        countryKeys ==
            IF ~asnSet /\ countrySet
            THEN << RuleKey(Star, m.country, Star) >>
            ELSE <<>>
    IN  asnKeys \o countryKeys \o << GlobalKey >>

\* buildRuleKeys that takes the asn alone as the asn+tsp pair
buildRuleKeysAsnAlone(m) ==
    LET asnSet     == m.asn # <<>>
        countrySet == m.country # <<>>
        asnKeys ==
            IF asnSet
            THEN IF countrySet
                 THEN << RuleKey(m.asn, m.country, m.tsp),
                         RuleKey(m.asn, m.country, Star),
                         RuleKey(m.asn, Star, m.tsp),
                         RuleKey(m.asn, Star, Star) >>
                 ELSE << RuleKey(m.asn, Star, m.tsp),
                         RuleKey(m.asn, Star, Star) >>
            ELSE <<>>
        countryKeys ==
            IF ~asnSet /\ countrySet
            THEN << RuleKey(Star, m.country, Star) >>
            ELSE <<>>
    IN  asnKeys \o countryKeys \o << GlobalKey >>

buildRuleKeys(m) ==
    LET asnSet     == m.asn # <<>> /\ m.tsp # <<>>
        countrySet == m.country # <<>>
        asnKeys ==
            IF asnSet
            THEN IF countrySet
                 THEN << RuleKey(m.asn, m.country, m.tsp),
                         RuleKey(m.asn, m.country, Star),
                         RuleKey(m.asn, Star, m.tsp),
                         RuleKey(m.asn, Star, Star) >>
                 ELSE << RuleKey(m.asn, Star, m.tsp),
                         RuleKey(m.asn, Star, Star) >>
            ELSE <<>>
        countryKeys ==
            IF ~asnSet /\ countrySet
            THEN << RuleKey(Star, m.country, Star) >>
            ELSE <<>>
    IN  asnKeys \o countryKeys \o << GlobalKey >>

\* byte values of the characters that occur in client addresses
Ord(c) ==
    CASE c = " " -> 32
      [] c = "," -> 44
      [] c = "." -> 46
      [] c = "0" -> 48
      [] c = "1" -> 49
      [] c = "2" -> 50
      [] c = "3" -> 51
      [] c = "4" -> 52
      [] c = "5" -> 53
      [] c = "6" -> 54
      [] c = "7" -> 55
      [] c = "8" -> 56
      [] c = "9" -> 57
      [] c = ":" -> 58
      [] c = "x" -> 120

\* bitwise exclusive or of two bytes
RECURSIVE XorBits(_, _, _)
XorBits(a, b, n) ==
    IF n = 0 THEN 0
    ELSE ((a + b) % 2) + 2 * XorBits(a \div 2, b \div 2, n - 1)
Xor8(a, b) == XorBits(a, b, 8)

\* FNV-1a, 32 bit, kept as two 16-bit halves so that no product exceeds
\* 31 bits: offset basis 2166136261 = 33052 * 2^16 + 40389,
\* prime 16777619 = 2^24 + 403.
FnvStep(h, b) ==
    LET lo   == (h.lo \div 256) * 256 + Xor8(h.lo % 256, b)
        full == lo * 403
    IN  [hi |-> (h.hi * 403 + (full \div 65536) + (lo % 256) * 256) % 65536,
         lo |-> full % 65536]

RECURSIVE Fnv32a(_, _)
\* the state after a byte is computed once, then the rest is hashed from it
Fnv32a(h, s) ==
    IF s = <<>> THEN h
    ELSE CHOOSE r \in {Fnv32a(x, Tail(s)) : x \in {FnvStep(h, Ord(Head(s)))}} : TRUE

\* the remainder taken after a conversion of the sum to a signed 32-bit
\* integer: negative for sums of 2^31 and more (2^32 % 100 = 96)
Sum32Mod100Signed(h) ==
    LET m == ((h.hi % 100) * (65536 % 100) + h.lo) % 100
    IN  IF h.hi >= 32768 THEN 0 - ((196 - m) % 100) ELSE m

\* int(h.Sum32() % 100): the remainder of the unsigned sum
Sum32Mod100(h) == ((h.hi % 100) * (65536 % 100) + h.lo) % 100

\* hashIP reducing modulo 1000 instead of 100
hashIPMod1000(s) ==
    LET h == Fnv32a([hi |-> 33052, lo |-> 40389], s)
    IN  ((h.hi % 1000) * (65536 % 1000) + h.lo) % 1000

hashIP(s) == Sum32Mod100(Fnv32a([hi |-> 33052, lo |-> 40389], s))

-----------------------------------------------------------------------------
(* Inputs of the pipeline *)

S_AS1 == <<"A","S","1">>
S_ir  == <<"i","r">>
S_IR  == <<"I","R">>
S_mci == <<"m","c","i">>

\* client addresses: hash buckets 10, 50 and 90
IP10 == <<"2",".","0",".","0",".","3">>
IP50 == <<"1",".","0",".","0",".","8">>
IP90 == <<"1",".","5",".","0",".","1">>

\* values of the X-Forwarded-For header ("" when the header is missing)
XFFs == { <<>>, IP10, IP90 }
\* values of r.RemoteAddr ("" when the peer address is unavailable)
RemoteAddrs == { <<>>, IP50 \o <<":","9">> }

\* request methods, request URIs (path and query) and Host values
Methods == {"GET", "POST"}
URIs    == {"/", "/healthz", "/a?b=1"}
HostA   == <<"a", ":", "8">>
HostB   == <<"b">>
Hosts   == {HostA, HostB}

\* a peer address without a port, which net.SplitHostPort rejects
BarePeer ==
    [xff |-> <<>>, remoteAddr |-> IP50, method |-> "GET", uri |-> "/",
     host |-> HostA]

\* requests of the pipeline: every source of the client address, one
\* method, URI and Host
Requests ==
    [xff : XFFs, remoteAddr : RemoteAddrs, method : {"GET"}, uri : {"/"},
     host : {HostA}]
    \cup {BarePeer}

EmptyMeta == [asn |-> <<>>, country |-> <<>>, tsp |-> <<>>]

\* bodies the origin-metadata service answers with (asn, country, tsp as sent)
GeoBodies ==
    [asn     : { <<>>, Dash, S_AS1 },
     country : { <<>>, S_ir },
     tsp     : { <<>>, <<" ">> \o S_mci }]

\* answers of http.Get on the origin-metadata service: a transport error, or
\* a status with a body that decodes into a Meta or does not
GeoAnswers ==
    [err : {TRUE}, status : {0}, decodable : {FALSE}, body : {EmptyMeta}]
    \cup [err : {FALSE}, status : {404, 500}, decodable : {FALSE}, body : {EmptyMeta}]
    \cup [err : {FALSE}, status : {200}, decodable : {FALSE}, body : {EmptyMeta}]
    \cup [err : {FALSE}, status : {200}, decodable : {TRUE}, body : GeoBodies]

NoAnswer == [err |-> FALSE, status |-> 0, decodable |-> FALSE]

KeysOf(ks) == {ks[i] : i \in 1..Len(ks)}

\* keys of the rule store the pipeline can ask for
KeySpace == UNION { KeysOf(buildRuleKeys(CleanMeta(b))) : b \in GeoBodies }

DropPercents == {0, 50, 100}

Absent  == [kind |-> "absent",  enabled |-> FALSE, dropPercent |-> 0]
Corrupt == [kind |-> "corrupt", enabled |-> FALSE, dropPercent |-> 0]
Rules   == [kind : {"rule"}, enabled : BOOLEAN, dropPercent : DropPercents]

PresentVals == Rules \cup {Corrupt}

\* number of keys the store holds
MaxRules == 2

Stores ==
    UNION { { [k \in KeySpace |-> IF k \in ks THEN f[k] ELSE Absent] :
                 f \in [ks -> PresentVals] } :
            ks \in {x \in SUBSET KeySpace : Cardinality(x) <= MaxRules} }

\* statuses the upstream answers with
UpstreamStatuses == {200, 302, 503}

\* host of HA_PROXY_URL, and the URL a redirect of the upstream points to
UpstreamHost == <<"h", ":", "8", "0">>
UpstreamURL(uri) == [host |-> UpstreamHost, uri |-> uri]
LocationURL == [host |-> <<"l">>, uri |-> "/login"]
NoURL       == [host |-> <<>>, uri |-> ""]

\* what one exchange with the upstream gives: a transport error, or a
\* response with its status, body and Location header
UpstreamError == [err |-> TRUE, status |-> 0, body |-> "", location |-> NoURL]
UpstreamAnswer(status) ==
    [err      |-> FALSE,
     status   |-> status,
     body     |-> IF status = 200 THEN "page"
                  ELSE IF status = 302 THEN "moved" ELSE "unavailable",
     location |-> IF status = 302 THEN LocationURL ELSE NoURL]

\* exchanges of the pipeline: an error, a final answer, and one redirect
\* that ends in a 200
Exchanges ==
    { <<UpstreamError>>, <<UpstreamAnswer(200)>>, <<UpstreamAnswer(503)>>,
      <<UpstreamAnswer(302), UpstreamAnswer(200)>> }

NoRequest  == [xff |-> <<>>, remoteAddr |-> <<>>, method |-> "", uri |-> "",
               host |-> <<>>]
NoResponse == [status |-> 0, origin |-> "none", body |-> "", location |-> NoURL]
NoUpstream == [err |-> FALSE, status |-> 0, body |-> "", location |-> NoURL]

StatusOK         == 200
StatusBadRequest == 400
StatusForbidden  == 403
StatusNotFound   == 404
StatusBadGateway == 502

BadRequest ==
    [status |-> StatusBadRequest, origin |-> "gateway",
     body |-> "Missing X-Forwarded-For header", location |-> NoURL]
Blocked ==
    [status |-> StatusForbidden, origin |-> "gateway",
     body |-> "Request blocked by Alak Gatekeeper", location |-> NoURL]
BadGateway ==
    [status |-> StatusBadGateway, origin |-> "gateway",
     body |-> "Upstream HAProxy error", location |-> NoURL]

-----------------------------------------------------------------------------
(* proxyHandler *)

\* net.SplitHostPort, host part; "" on error (no colon, or a colon in the host)
SplitHost(hostport) ==
    IF ~ \E i \in 1..Len(hostport) : hostport[i] = ":"
    THEN <<>>
    ELSE LET i    == CHOOSE j \in 1..Len(hostport) :
                        /\ hostport[j] = ":"
                        /\ \A k \in (j + 1)..Len(hostport) : hostport[k] # ":"
             host == SubSeq(hostport, 1, i - 1)
         IN  IF \E k \in 1..Len(host) : host[k] = ":" THEN <<>> ELSE host

\* ClientIP that takes the peer address as it is when it has no port
ClientIPOrPeer(r) ==
    IF r.xff # <<>> THEN r.xff
    ELSE IF SplitHost(r.remoteAddr) # <<>> THEN SplitHost(r.remoteAddr)
    ELSE r.remoteAddr

\* the client address: the X-Forwarded-For header, else the host of the peer
\* address
ClientIP(r) == IF r.xff # <<>> THEN r.xff ELSE SplitHost(r.remoteAddr)

Labels(m) == <<m.asn, m.country, m.tsp>>

Inc(counter, labels) == counter (+) SetToBag({labels})

\* the request arrives; http.HandleFunc("/", proxyHandler) gives the handler
\* every path but /metrics. The client IP is taken from X-Forwarded-For,
\* else from the peer address; without one the handler answers 400
Receive(r) ==
    /\ pc = "idle"
    /\ req' = r
    /\ ip' = ClientIP(r)
    /\ IF ClientIP(r) = <<>>
       THEN /\ response' = BadRequest
            /\ pc' = "done"
       ELSE /\ response' = response
            /\ pc' = "geo"
    /\ UNCHANGED <<store, geoCalls, geoAnswer, meta, ruleKeys, idx, found, rule,
                   bestKey, gets, redisFailed, requests, drops, upstreamReqs,
                   upstreamAnswers, upstreamResult>>
    /\ UNCHANGED <<keyVars, poolVars, auxVars>>

\* GeoClass that ignores the decoder's error and goes on with the zero Meta
GeoClassDecodeUnchecked(a) ==
    IF a.err THEN "error"
    ELSE IF a.status = StatusNotFound THEN "notfound"
    ELSE IF a.status # StatusOK THEN "badstatus"
    ELSE "ok"

\* GeoClass without the branch for status 404
GeoClassNotFoundAsOK(a) ==
    IF a.err THEN "error"
    ELSE IF a.status = StatusNotFound THEN "ok"
    ELSE IF a.status # StatusOK THEN "badstatus"
    ELSE IF ~a.decodable THEN "undecodable"
    ELSE "ok"

\* how proxyHandler reads the answer of the origin-metadata service
GeoClass(a) ==
    IF a.err THEN "error"
    ELSE IF a.status = StatusNotFound THEN "notfound"
    ELSE IF a.status # StatusOK THEN "badstatus"
    ELSE IF ~a.decodable THEN "undecodable"
    ELSE "ok"

\* http.Get on the origin-metadata service returns; on a decoded 200 the
\* fields are normalised, the request is counted and the keys are built
GeoLookup(a) ==
    /\ pc = "geo"
    /\ geoCalls' = Append(geoCalls, ip)
    /\ geoAnswer' = [err |-> a.err, status |-> a.status, decodable |-> a.decodable]
    /\ IF GeoClass(a) = "ok"
       THEN /\ meta' = CleanMeta(a.body)
            /\ requests' = Inc(requests, Labels(CleanMeta(a.body)))
            /\ ruleKeys' = buildRuleKeys(CleanMeta(a.body))
            /\ idx' = 1
            /\ pc' = "redis"
       ELSE /\ UNCHANGED <<meta, requests, ruleKeys, idx>>
            /\ pc' = "forward"
    /\ UNCHANGED <<store, req, ip, found, rule, bestKey, gets, redisFailed,
                   drops, upstreamReqs, upstreamAnswers, upstreamResult,
                   response>>
    /\ UNCHANGED <<keyVars, poolVars, auxVars>>

\* GetOutcome that takes every error of the get for redis.Nil
GetOutcomeErrorAsNil(fails, val) ==
    IF fails \/ val.kind = "absent" THEN "nil"
    ELSE IF val.kind = "corrupt" THEN "corrupt"
    ELSE "hit"

\* GetOutcome that skips a value json.Unmarshal rejects and goes on with the
\* next key
GetOutcomeCorruptAsNil(fails, val) ==
    IF ~fails /\ val.kind \in {"absent", "corrupt"} THEN "nil"
    ELSE IF fails THEN "error"
    ELSE "hit"

\* how the loop reads the result of redisClient.Get: redis.Nil, another
\* error, a value json.Unmarshal rejects, or a rule
GetOutcome(fails, val) ==
    IF ~fails /\ val.kind = "absent" THEN "nil"
    ELSE IF fails THEN "error"
    ELSE IF val.kind = "corrupt" THEN "corrupt"
    ELSE "hit"

\* the comparison with its operands exchanged
ShouldDropReversed(hash, dropPercent) == dropPercent < hash

\* the comparison made inclusive
ShouldDropInclusive(hash, dropPercent) == hash <= dropPercent

\* the comparison made with the percentage taken modulo one hundred
ShouldDropModHundred(hash, dropPercent) == hash < dropPercent % 100

\* the comparison of the hash bucket with the rule's drop percentage
ShouldDrop(hash, dropPercent) == hash < dropPercent

\* Decide without the check of the enabled flag
DecideIgnoringEnabled(r, clientIP) ==
    IF ShouldDrop(hashIP(clientIP), r.dropPercent) THEN "drop" ELSE "allow"

\* the decision on a matched rule
Decide(r, clientIP) ==
    IF ~r.enabled THEN "allow"
    ELSE IF ShouldDrop(hashIP(clientIP), r.dropPercent) THEN "drop"
    ELSE "allow"

\* one iteration of the loop over ruleKeys: redisClient.Get on ruleKeys[idx];
\* on a hit the loop ends and the decision is taken
RedisGet(fails) ==
    /\ pc = "redis"
    /\ LET key == ruleKeys[idx]
           val == store[key]
           out == GetOutcome(fails, val)
       IN  /\ gets' = Append(gets, key)
           /\ redisFailed' = (redisFailed \/ fails)
           /\ CASE out = "nil" ->
                   \* continue, or leave the loop without a rule
                   /\ idx' = idx + 1
                   /\ pc' = IF idx = Len(ruleKeys) THEN "forward" ELSE "redis"
                   /\ UNCHANGED <<found, rule, bestKey, drops, response>>
                [] out \in {"error", "corrupt"} ->
                   \* fail open
                   /\ pc' = "forward"
                   /\ UNCHANGED <<idx, found, rule, bestKey, drops, response>>
                [] out = "hit" ->
                   /\ found' = TRUE
                   /\ rule' = val
                   /\ bestKey' = key
                   /\ idx' = idx
                   /\ IF Decide(val, ip) = "drop"
                      THEN /\ drops' = Inc(drops, Labels(meta))
                           /\ response' = Blocked
                           /\ pc' = "done"
                      ELSE /\ pc' = "forward"
                           /\ UNCHANGED <<drops, response>>
    /\ UNCHANGED <<store, req, ip, geoCalls, geoAnswer, meta, ruleKeys,
                   requests, upstreamReqs, upstreamAnswers, upstreamResult>>
    /\ UNCHANGED <<keyVars, poolVars, auxVars>>

\* the X-Forwarded-For header of the outbound request
OutboundXFF(r, clientIP) ==
    IF r.xff # <<>> /\ ~Contains(r.xff, clientIP)
    THEN r.xff \o <<",", " ">> \o clientIP
    ELSE IF r.xff = <<>> THEN clientIP
    ELSE r.xff

\* the Host of the outbound request: the handler copies every header but
\* Host, and http.NewRequest takes the Host from the URL it is given
OutboundHost(r) == UpstreamHost

\* the request http.NewRequest builds for the upstream
OutboundRequest(r, clientIP) ==
    [method |-> r.method,
     url    |-> UpstreamURL(r.uri),
     host   |-> OutboundHost(r),
     xff    |-> OutboundXFF(r, clientIP)]

\* http.Client with CheckRedirect unset follows a 301, 302 or 303 that has a
\* Location header; the next request goes to that URL, as GET unless the
\* method was GET or HEAD, with the headers of the first request
FollowsRedirect(a) ==
    /\ ~a.err
    /\ a.status \in {301, 302, 303}
    /\ a.location # NoURL

RedirectMethod(m) == IF m \in {"GET", "HEAD"} THEN m ELSE "GET"

RedirectRequest(first, a) ==
    [method |-> RedirectMethod(first.method),
     url    |-> a.location,
     host   |-> a.location.host,
     xff    |-> first.xff]

\* the answers one client.Do goes through: each answer but the last is a
\* redirect the client follows
IsExchange(c) ==
    /\ c # <<>>
    /\ \A i \in 1..Len(c) : (i < Len(c)) <=> FollowsRedirect(c[i])

\* the requests client.Do sends during the exchange c
RequestsSent(first, c) ==
    [i \in 1..Len(c) |-> IF i = 1 THEN first ELSE RedirectRequest(first, c[i - 1])]

\* ResponseOf that answers a failed exchange like a failed http.NewRequest
ResponseOfErrorAs500(a) ==
    IF a.err
    THEN [status |-> 500, origin |-> "gateway", body |-> "Proxy error",
          location |-> NoURL]
    ELSE [status |-> a.status, origin |-> "upstream", body |-> a.body,
          location |-> a.location]

\* what the handler writes from the result of client.Do: 502 on an error,
\* otherwise the status, headers and body of the response
ResponseOf(a) ==
    IF a.err
    THEN BadGateway
    ELSE [status |-> a.status, origin |-> "upstream", body |-> a.body,
          location |-> a.location]

\* proxyToHAProxy: the request is sent to the upstream with client.Do, which
\* goes through the exchange c; the result is written to the caller.
\* http.NewRequest is taken to succeed: the method comes from a parsed
\* request and the upstream base URL is a well-formed configuration value.
Forward(c) ==
    /\ pc = "forward"
    /\ upstreamReqs' = upstreamReqs \o RequestsSent(OutboundRequest(req, ip), c)
    /\ upstreamAnswers' = upstreamAnswers \o c
    /\ upstreamResult' = c[Len(c)]
    /\ response' = ResponseOf(c[Len(c)])
    /\ pc' = "done"
    /\ UNCHANGED <<store, req, ip, geoCalls, geoAnswer, meta, ruleKeys, idx,
                   found, rule, bestKey, gets, redisFailed, requests, drops>>
    /\ UNCHANGED <<keyVars, poolVars, auxVars>>

\* requests the shared transport carries at a time
MaxFlights == 2
Slots == 1..MaxFlights

NoFlight == [state |-> "free", host |-> <<>>, conn |-> <<>>]

\* the transport with per-request server names is not in use
PoolOff ==
    /\ sniOverride = <<>>
    /\ idleConns = EmptyBag
    /\ flights = [i \in Slots |-> NoFlight]

\* no stand-alone evaluation of hashIP
HashOff ==
    /\ hin = <<>>
    /\ hout = <<>>

\* nothing but the pipeline, the key builder or the transport is running
\* a rule as the controller decodes and stores it (City, which no key
\* holds, is left out)
NoRule ==
    [asn |-> <<>>, country |-> <<>>, tsp |-> <<>>, dropPercent |-> 0,
     ttl |-> 0, enabled |-> FALSE]

\* no controller handler is running and its store view is empty
CtlOff ==
    /\ rdb = <<>>
    /\ cpc = "idle"
    /\ ckey = <<>>
    /\ cur = NoRule
    /\ expiry = 0
    /\ cresp = 0

AuxOff == HashOff /\ CtlOff /\ covered = FALSE

\* no stand-alone evaluation of buildRuleKeys
KeysOff ==
    /\ kin = EmptyMeta
    /\ kout = <<>>
    /\ kpc = "off"

\* A behaviour follows one request from its arrival to its response. The
\* handler keeps nothing between requests but the two counter vectors, which
\* start empty; the store is the one the administration API left, and holds
\* at most MaxRules keys.
Idle ==
    /\ pc = "idle"
    /\ req = NoRequest
    /\ ip = <<>>
    /\ geoCalls = <<>>
    /\ geoAnswer = NoAnswer
    /\ meta = EmptyMeta
    /\ ruleKeys = <<>>
    /\ idx = 0
    /\ found = FALSE
    /\ rule = Absent
    /\ bestKey = <<>>
    /\ gets = <<>>
    /\ redisFailed = FALSE
    /\ requests = EmptyBag
    /\ drops = EmptyBag
    /\ upstreamReqs = <<>>
    /\ upstreamAnswers = <<>>
    /\ upstreamResult = NoUpstream
    /\ response = NoResponse

Init ==
    /\ store \in Stores
    /\ Idle
    /\ KeysOff
    /\ PoolOff
    /\ AuxOff

Next ==
    \/ \E r \in Requests : Receive(r)
    \/ \E a \in GeoAnswers : GeoLookup(a)
    \/ \E fails \in BOOLEAN : RedisGet(fails)
    \/ \E c \in Exchanges : Forward(c)

Spec == Init /\ [][Next]_vars

-----------------------------------------------------------------------------
(* The Forwarder under every request and every exchange *)

\* redirects one client.Do follows
MaxHops == 2

\* X-Forwarded-For values, a chain of two addresses among them
ForwardXFFs == XFFs \cup { IP10 \o <<",", " ">> \o IP90 }

ForwardRequests ==
    [xff : ForwardXFFs, remoteAddr : RemoteAddrs, method : Methods, uri : URIs,
     host : Hosts]

ForwardAnswers == {UpstreamError} \cup {UpstreamAnswer(st) : st \in UpstreamStatuses}

ForwardExchanges ==
    { c \in UNION { [1..n -> ForwardAnswers] : n \in 1..(MaxHops + 1) } :
        IsExchange(c) }

\* stores with nothing but the global key
ForwardStores ==
    { [k \in KeySpace |-> IF k = GlobalKey THEN v ELSE Absent] :
        v \in PresentVals \cup {Absent} }

InitForward ==
    /\ store \in ForwardStores
    /\ Idle
    /\ KeysOff
    /\ PoolOff
    /\ AuxOff

NextForward ==
    \/ \E r \in ForwardRequests : Receive(r)
    \/ \E a \in GeoAnswers : GeoLookup(a)
    \/ \E fails \in BOOLEAN : RedisGet(fails)
    \/ \E c \in ForwardExchanges : Forward(c)

SpecForward == InitForward /\ [][NextForward]_vars

-----------------------------------------------------------------------------
(* buildRuleKeys on its own *)

\* asn as the origin-metadata service sends it: "AS" and the number, or a
\* placeholder; country: a two-letter code or a placeholder
KeyAsns      == { <<>>, Dash, S_AS1, <<" ">> \o S_AS1, <<"A","S","2","2">> }
KeyCountries == { <<>>, Dash, S_ir, S_IR \o <<" ">>, <<"d","e">> }

\* tsp: free text
TspAlphabet == {"a", "*", ":", "-", " "}
MaxTspLen == 2
KeyTsps == StringsUpTo(TspAlphabet, MaxTspLen)

KeyMetas == [asn : KeyAsns, country : KeyCountries, tsp : KeyTsps]

BuildKeys ==
    /\ kpc = "ready"
    /\ kout' = buildRuleKeys(CleanMeta(kin))
    /\ kpc' = "built"
    /\ UNCHANGED <<kin, store, pc, req, ip, geoCalls, geoAnswer, meta, ruleKeys,
                   idx, found, rule, bestKey, gets, redisFailed, requests,
                   drops, upstreamReqs, upstreamAnswers, upstreamResult,
                   response>>
    /\ UNCHANGED <<poolVars, auxVars>>

InitKeys ==
    /\ store = [k \in KeySpace |-> Absent]
    /\ Idle
    /\ kin \in KeyMetas
    /\ kout = <<>>
    /\ kpc = "ready"
    /\ PoolOff
    /\ AuxOff

NextKeys == BuildKeys

SpecKeys == InitKeys /\ [][NextKeys]_vars

-----------------------------------------------------------------------------
(* hashIP on its own *)

\* length of the strings hashIP is given
MaxHashLen == 3

\* one invocation of hashIP; it starts from a new fnv.New32a() each time
HashIP ==
    /\ Len(hout) < 2
    /\ hout' = Append(hout, hashIP(hin))
    /\ UNCHANGED hin
    /\ UNCHANGED <<pipeVars, keyVars, poolVars, ctlVars, covered>>

\* the input is a client address as proxyHandler passes it: any header
\* value, the empty string among them
InitHash ==
    /\ store = [k \in KeySpace |-> Absent]
    /\ Idle
    /\ KeysOff
    /\ PoolOff
    /\ hin \in StringsUpTo({"1", ".", ",", "x"}, MaxHashLen)
               \cup {IP10, IP50, IP90, IP10 \o <<",", " ">> \o IP90}
    /\ hout = <<>>
    /\ CtlOff
    /\ covered = FALSE

SpecHash == InitHash /\ [][HashIP]_vars

-----------------------------------------------------------------------------
(* The pipeline when a collaborator accepts a call and does not answer *)

\* the origin-metadata service accepts the lookup and never answers:
\* http.Get uses http.DefaultClient, which has no Timeout, and does not return
GeoStall ==
    /\ pc = "geo"
    /\ geoCalls' = Append(geoCalls, ip)
    /\ pc' = "geoStalled"
    /\ UNCHANGED <<store, req, ip, geoAnswer, meta, ruleKeys, idx, found, rule,
                   bestKey, gets, redisFailed, requests, drops, upstreamReqs,
                   upstreamAnswers, upstreamResult, response>>
    /\ UNCHANGED <<keyVars, poolVars, auxVars>>

\* the rule store accepts the get on ruleKeys[idx] and does not answer
RedisStall ==
    /\ pc = "redis"
    /\ gets' = Append(gets, ruleKeys[idx])
    /\ pc' = "redisStalled"
    /\ UNCHANGED <<store, req, ip, geoCalls, geoAnswer, meta, ruleKeys, idx,
                   found, rule, bestKey, redisFailed, requests, drops,
                   upstreamReqs, upstreamAnswers, upstreamResult, response>>
    /\ UNCHANGED <<keyVars, poolVars, auxVars>>

\* the client made by redis.NewClient from Options with nothing but Addr
\* reads with its default timeout: the get returns an error, which the loop
\* answers by failing open
RedisTimeout ==
    /\ pc = "redisStalled"
    /\ redisFailed' = TRUE
    /\ pc' = "forward"
    /\ UNCHANGED <<store, req, ip, geoCalls, geoAnswer, meta, ruleKeys, idx,
                   found, rule, bestKey, gets, requests, drops, upstreamReqs,
                   upstreamAnswers, upstreamResult, response>>
    /\ UNCHANGED <<keyVars, poolVars, auxVars>>

InitOutage ==
    /\ store \in ForwardStores
    /\ Idle
    /\ KeysOff
    /\ PoolOff
    /\ AuxOff

NextOutage ==
    \/ \E r \in Requests : Receive(r)
    \/ \E a \in GeoAnswers : GeoLookup(a)
    \/ GeoStall
    \/ \E fails \in BOOLEAN : RedisGet(fails)
    \/ RedisStall
    \/ RedisTimeout
    \/ \E c \in Exchanges : Forward(c)

\* every call that returns is followed by the next statement of the handler,
\* and the upstream answers
SpecOutage == InitOutage /\ [][NextOutage]_vars /\ WF_vars(NextOutage)

-----------------------------------------------------------------------------
(* The upstream transport with per-request server names                    *)
(* (alak-gatekeeper/main.go as kept in src/unnamed/part_003): one          *)
(* http.Transport and its idle connections are shared by all requests; the *)
(* server name of a TLS handshake is taken from the context of the request *)
(* the connection is dialled for.                                          *)

\* hostNoPort: the host of host:port, or the value itself
hostNoPort(h) ==
    IF h = <<>> THEN h
    ELSE IF SplitHost(h) # <<>> THEN SplitHost(h)
    ELSE h

\* desiredSNI: the inbound Host without its port, or the override
desiredSNI(h) == IF sniOverride # <<>> THEN sniOverride ELSE hostNoPort(h)

\* DialTLSContext: the server name of the handshake is the one in the
\* context, or the host of the dialled address when there is none
ServerName(ctxSNI) == IF ctxSNI # <<>> THEN ctxSNI ELSE hostNoPort(UpstreamHost)

SNIOverrides == { <<>>, <<"o">> }

\* server names a connection can have been dialled with
ConnNames == {hostNoPort(h) : h \in Hosts} \cup (SNIOverrides \ {<<>>})

\* proxyClient.Do is called for a request with the given Host
Arrive(i, h) ==
    /\ flights[i].state = "free"
    /\ flights' = [flights EXCEPT ![i] = [state |-> "want", host |-> h, conn |-> <<>>]]
    /\ UNCHANGED <<sniOverride, idleConns>>
    /\ UNCHANGED <<pipeVars, keyVars, auxVars>>

\* no connection to the upstream is idle: one is dialled for the request,
\* with the server name of its context, and the request is sent on it
DialConn(i) ==
    /\ flights[i].state = "want"
    /\ idleConns = EmptyBag
    /\ flights' = [flights EXCEPT ![i].state = "sent",
                                  ![i].conn = ServerName(desiredSNI(flights[i].host))]
    /\ UNCHANGED <<sniOverride, idleConns>>
    /\ UNCHANGED <<pipeVars, keyVars, auxVars>>

\* a connection to the upstream is idle: the transport, which keeps its idle
\* connections by scheme and address of the target, sends the request on it
ReuseConn(i, c) ==
    /\ flights[i].state = "want"
    /\ BagIn(c, idleConns)
    /\ idleConns' = idleConns (-) SetToBag({c})
    /\ flights' = [flights EXCEPT ![i].state = "sent", ![i].conn = c]
    /\ UNCHANGED sniOverride
    /\ UNCHANGED <<pipeVars, keyVars, auxVars>>

\* the response has been read: the connection goes back to the idle
\* connections, or is closed
Finish(i, keep) ==
    /\ flights[i].state = "sent"
    /\ idleConns' = IF keep THEN idleConns (+) SetToBag({flights[i].conn})
                    ELSE idleConns
    /\ flights' = [flights EXCEPT ![i] = NoFlight]
    /\ UNCHANGED sniOverride
    /\ UNCHANGED <<pipeVars, keyVars, auxVars>>

\* IdleConnTimeout: an idle connection is closed
CloseIdle(c) ==
    /\ BagIn(c, idleConns)
    /\ idleConns' = idleConns (-) SetToBag({c})
    /\ UNCHANGED <<sniOverride, flights>>
    /\ UNCHANGED <<pipeVars, keyVars, auxVars>>

InitPool ==
    /\ store = [k \in KeySpace |-> Absent]
    /\ Idle
    /\ KeysOff
    /\ sniOverride \in SNIOverrides
    /\ idleConns = EmptyBag
    /\ flights = [i \in Slots |-> NoFlight]
    /\ AuxOff

NextPool ==
    \/ \E i \in Slots, h \in Hosts : Arrive(i, h)
    \/ \E i \in Slots : DialConn(i)
    \/ \E i \in Slots, c \in ConnNames : ReuseConn(i, c)
    \/ \E i \in Slots, keep \in BOOLEAN : Finish(i, keep)
    \/ \E c \in ConnNames : CloseIdle(c)

SpecPool == InitPool /\ [][NextPool]_vars

-----------------------------------------------------------------------------
(* Properties of the pipeline, checked under Spec *)

\* the origin lookup was made and failed: transport error, a status other
\* than 200 and 404, or a 200 whose body does not decode
OriginLookupFailed ==
    /\ geoCalls # <<>>
    /\ \/ geoAnswer.err
       \/ geoAnswer.status \notin {200, 404}
       \/ geoAnswer.status = 200 /\ ~geoAnswer.decodable

OriginLookupNotFound ==
    /\ geoCalls # <<>>
    /\ ~geoAnswer.err
    /\ geoAnswer.status = 404

Concluded == pc \in {"forward", "done"}

\* the request went to the upstream and the caller got the result of the
\* exchange: its last answer, or 502 when the exchange failed
Forwarded ==
    /\ upstreamReqs # <<>>
    /\ upstreamReqs[1].url = UpstreamURL(req.uri)
    /\ IF upstreamResult.err
       THEN (response.status = 502 /\ response.origin = "gateway")
       ELSE (response.status = upstreamResult.status /\ response.origin = "upstream")

\* the decision was Allow: no 403, no drop counted, and the request is
\* forwarded
Allowed ==
    /\ Concluded
    /\ ~(response.status = 403 /\ response.origin = "gateway")
    /\ drops = EmptyBag
    /\ pc = "done" => Forwarded
    /\ pc = "forward" => upstreamReqs = <<>>

\* the decision was Drop: 403, the drop counted once, nothing sent upstream
Dropped ==
    /\ pc = "done"
    /\ (response.status = 403 /\ response.origin = "gateway")
    /\ drops = SetToBag({Labels(meta)})
    /\ upstreamReqs = <<>>

IsRule(v, en, dp) == v = [kind |-> "rule", enabled |-> en, dropPercent |-> dp]

\* position in ks of the first key the store holds, 0 if it holds none
FirstPresent(ks) ==
    IF \E i \in 1..Len(ks) : store[ks[i]].kind # "absent"
    THEN CHOOSE i \in 1..Len(ks) :
            /\ store[ks[i]].kind # "absent"
            /\ \A j \in 1..(i - 1) : store[ks[j]].kind = "absent"
    ELSE 0

\* C1: when the origin lookup fails (transport error, status other than 200
\* and 404, undecodable body) the handler queries no rule key and forwards
\* the request; the caller gets the upstream's answer (502 only when the
\* upstream exchange itself fails), never a 400 or 403 of the gateway.
C1_FailOpenOnOriginFailure ==
    OriginLookupFailed => (gets = <<>> /\ Allowed)

C1_Witness ==
    /\ pc = "done"
    /\ geoCalls # <<>>
    /\ geoAnswer.status = 200 /\ ~geoAnswer.decodable
    /\ IsRule(store[GlobalKey], TRUE, 100)
    /\ (response.status = 200 /\ response.origin = "upstream")

\* C2: when a get on the rule store returns a transport error, the loop
\* stops at that key (the error is not read as "absent"), no rule is used
\* and the request is forwarded, never answered with 403.
C2_FailOpenOnStoreFailure ==
    redisFailed => (Len(gets) = idx /\ ~found /\ Allowed)

C2_Witness ==
    /\ pc = "done"
    /\ redisFailed
    /\ Len(ruleKeys) = 5
    /\ Len(gets) = 1
    /\ IsRule(store[ruleKeys[1]], TRUE, 100)
    /\ IsRule(store[GlobalKey], TRUE, 100)
    /\ (response.status = 200 /\ response.origin = "upstream")

\* C3: once the loop has ended without a store error, the keys queried are
\* the generated keys up to the first one the store holds, the rule used is
\* the rule at that key and the outcome is computed from it alone; with asn,
\* country and tsp present and a rule at the exact key, that key is used.
C3_FirstPresentKeyWins ==
    (Concluded /\ ruleKeys # <<>> /\ ~redisFailed) =>
        LET fp    == FirstPresent(ruleKeys)
            exact == RulePrefix \o meta.asn \o <<":">> \o meta.country
                        \o <<":">> \o meta.tsp
        IN  /\ IF fp = 0
               THEN ~found /\ gets = ruleKeys
               ELSE /\ gets = SubSeq(ruleKeys, 1, fp)
                    /\ store[ruleKeys[fp]].kind = "rule" =>
                          /\ found
                          /\ bestKey = ruleKeys[fp]
                          /\ rule = store[ruleKeys[fp]]
                          /\ IF rule.enabled /\ hashIP(ip) < rule.dropPercent
                             THEN Dropped ELSE Allowed
            /\ ( /\ meta.asn # <<>> /\ meta.country # <<>> /\ meta.tsp # <<>>
                 /\ store[exact].kind = "rule" )
               => (found /\ bestKey = exact /\ rule = store[exact] /\ gets = <<exact>>)

C3_Witness ==
    /\ pc = "done"
    /\ meta = [asn |-> S_AS1, country |-> S_IR, tsp |-> S_mci]
    /\ IsRule(store[RuleKey(S_AS1, S_IR, S_mci)], TRUE, 0)
    /\ IsRule(store[RuleKey(S_AS1, S_IR, Star)], TRUE, 100)
    /\ bestKey = RuleKey(S_AS1, S_IR, S_mci)
    /\ ~redisFailed
    /\ (response.status = 200 /\ response.origin = "upstream")

\* C4: when the first key the store holds carries a rule with enabled =
\* false, the request is forwarded whatever the client IP and dropPercent,
\* and no less specific key is queried.
C4_DisabledRuleAllows ==
    (Concluded /\ ruleKeys # <<>> /\ ~redisFailed) =>
        LET fp == FirstPresent(ruleKeys)
        IN  (fp > 0 /\ store[ruleKeys[fp]].kind = "rule" /\ ~store[ruleKeys[fp]].enabled)
            => (Allowed /\ gets = SubSeq(ruleKeys, 1, fp))

C4_Witness ==
    /\ pc = "done"
    /\ ip = IP10
    /\ Len(ruleKeys) = 5
    /\ IsRule(store[ruleKeys[1]], FALSE, 100)
    /\ IsRule(store[GlobalKey], TRUE, 100)
    /\ ~redisFailed
    /\ gets = <<ruleKeys[1]>>
    /\ (response.status = 200 /\ response.origin = "upstream")

\* C5: when the rule used has enabled = true and dropPercent = 100, the
\* caller gets 403, the drop counter is incremented once and nothing is sent
\* to the upstream, for every client IP.
C5_FullDropAlwaysDrops ==
    (found /\ rule.enabled /\ rule.dropPercent = 100) => Dropped

C5_Witness ==
    /\ found /\ rule.enabled /\ rule.dropPercent = 100
    /\ ip = IP90
    /\ (response.status = 403 /\ response.origin = "gateway")

\* C6: when the rule used has enabled = true and dropPercent = 0, the request
\* is forwarded and 403 is never returned, for every client IP.
C6_ZeroDropAlwaysAllows ==
    (found /\ rule.enabled /\ rule.dropPercent = 0) => Allowed

C6_Witness ==
    /\ found /\ rule.enabled /\ rule.dropPercent = 0
    /\ ip = IP10
    /\ pc = "done"
    /\ (response.status = 200 /\ response.origin = "upstream")

\* the hash buckets of the three client addresses
Buckets == <<hashIP(IP10), hashIP(IP50), hashIP(IP90)>>

\* C7: for an enabled rule found at any key, the request is dropped exactly
\* when hashIP(ip) < dropPercent; with dropPercent = 50 the address of bucket
\* 10 is dropped and the address of bucket 90 is allowed.
C7_ThresholdRule ==
    /\ Buckets = <<10, 50, 90>>
    /\ (found /\ rule.enabled) =>
          /\ IF hashIP(ip) < rule.dropPercent THEN Dropped ELSE Allowed
          /\ (rule.dropPercent = 50 /\ ip = IP10) => Dropped
          /\ (rule.dropPercent = 50 /\ ip = IP90) => Allowed

C7_Witness ==
    /\ pc = "done"
    /\ ip = IP10
    /\ Len(ruleKeys) = 5
    /\ \A k \in KeySpace : k # GlobalKey => store[k] = Absent
    /\ IsRule(store[GlobalKey], TRUE, 50)
    /\ gets = ruleKeys
    /\ (response.status = 403 /\ response.origin = "gateway")

\* C10: a request whose origin lookup returns 404 is decided like a request
\* whose lookup returned 200 with all fields empty: the global key is looked
\* up and an enabled global rule is applied to it.
C10_NotFoundDecidedAsEmptyMeta ==
    (OriginLookupNotFound /\ pc = "done" /\ ~redisFailed) =>
        /\ gets = <<GlobalKey>>
        /\ IF /\ store[GlobalKey].kind = "rule"
              /\ store[GlobalKey].enabled
              /\ hashIP(ip) < store[GlobalKey].dropPercent
           THEN (response.status = 403 /\ response.origin = "gateway")
           ELSE ~(response.status = 403 /\ response.origin = "gateway")

-----------------------------------------------------------------------------
(* Properties of buildRuleKeys, checked under SpecKeys *)

NoDuplicates(ks) == \A i, j \in 1..Len(ks) : ks[i] = ks[j] => i = j

HasStar(str) == \E i \in 1..Len(str) : str[i] = "*"

Key3(a, c, t) == <<"r","u","l","e",":">> \o a \o <<":">> \o c \o <<":">> \o t

\* C8: for metadata with asn, country and tsp all non-empty the keys are
\* exactly rule:asn:country:tsp, rule:asn:country:*, rule:asn:*:tsp,
\* rule:asn:*:*, rule:*:*:* in this order, and rule:*:country:* is not one
\* of them.
C8_FiveKeysInOrder ==
    LET m == CleanMeta(kin)
    IN  (kpc = "built" /\ m.asn # <<>> /\ m.country # <<>> /\ m.tsp # <<>>) =>
           /\ kout = << Key3(m.asn, m.country, m.tsp),
                        Key3(m.asn, m.country, <<"*">>),
                        Key3(m.asn, <<"*">>, m.tsp),
                        Key3(m.asn, <<"*">>, <<"*">>),
                        Key3(<<"*">>, <<"*">>, <<"*">>) >>
           /\ \A i \in 1..Len(kout) : kout[i] # Key3(<<"*">>, m.country, <<"*">>)

C8_Witness ==
    /\ kpc = "built"
    /\ CleanMeta(kin) = [asn |-> S_AS1, country |-> S_IR, tsp |-> <<"a">>]
    /\ kin.country = S_ir
    /\ Len(kout) = 5

\* the shape of the list when the asn+tsp pair or the country is missing
KeysShape(m, ks) ==
    /\ ks # <<>>
    /\ ks[Len(ks)] = Key3(<<"*">>, <<"*">>, <<"*">>)
    /\ (m.asn = <<>> \/ m.tsp = <<>>) =>
          ks = IF m.country # <<>>
               THEN << Key3(<<"*">>, m.country, <<"*">>),
                       Key3(<<"*">>, <<"*">>, <<"*">>) >>
               ELSE << Key3(<<"*">>, <<"*">>, <<"*">>) >>
    /\ (m.asn # <<>> /\ m.tsp # <<>> /\ m.country = <<>>) =>
          ks = << Key3(m.asn, <<"*">>, m.tsp),
                  Key3(m.asn, <<"*">>, <<"*">>),
                  Key3(<<"*">>, <<"*">>, <<"*">>) >>

\* C9 (as stated): for every metadata value the list is non-empty, free of
\* duplicates and ends with the global key; without asn or tsp it is
\* [rule:*:country:*, global] or [global]; with asn and tsp but no country
\* it is [rule:asn:*:tsp, rule:asn:*:*, global].
C9_KeysDuplicateFree ==
    kpc = "built" => (KeysShape(CleanMeta(kin), kout) /\ NoDuplicates(kout))

\* C9 (amended): the same, the list being free of duplicates whenever no
\* field of the metadata contains the wildcard character.
C9_KeysDuplicateFreeWithoutStar ==
    LET m == CleanMeta(kin)
    IN  kpc = "built" =>
           /\ KeysShape(m, kout)
           /\ (~HasStar(m.asn) /\ ~HasStar(m.country) /\ ~HasStar(m.tsp))
                 => NoDuplicates(kout)

C9_Witness ==
    /\ kpc = "built"
    /\ CleanMeta(kin) = [asn |-> S_AS1, country |-> S_IR, tsp |-> <<>>]
    /\ kout = << Key3(<<"*">>, S_IR, <<"*">>), Key3(<<"*">>, <<"*">>, <<"*">>) >>

-----------------------------------------------------------------------------
(* Error handling and the Forwarder, checked under Spec *)

\* C11: when the value at the first key the store holds does not decode into
\* a rule, the loop ends at that key (no less specific key is queried, no
\* rule is used) and the request is forwarded: never 403, and no error
\* status of the gateway unless the exchange with the upstream itself fails.
C11_CorruptRuleFailsOpen ==
    LET fp == FirstPresent(ruleKeys)
    IN  (Concluded /\ ruleKeys # <<>> /\ ~redisFailed /\ fp # 0
            /\ store[ruleKeys[IF fp = 0 THEN 1 ELSE fp]].kind = "corrupt") =>
           /\ gets = SubSeq(ruleKeys, 1, fp)
           /\ ~found
           /\ Allowed
           /\ (pc = "done" /\ ~upstreamResult.err) => response.origin = "upstream"

C11_Witness ==
    /\ pc = "done"
    /\ ~redisFailed
    /\ Len(ruleKeys) = 5
    /\ store[ruleKeys[1]] = Absent
    /\ store[ruleKeys[2]] = Corrupt
    /\ IsRule(store[GlobalKey], TRUE, 100)
    /\ gets = SubSeq(ruleKeys, 1, 2)
    /\ (response.status = 200 /\ response.origin = "upstream")

\* C12: a request without X-Forwarded-For whose peer address gives no host
\* (it is empty, or has no port) is answered 400 by the handler; the origin
\* service, the rule store and the upstream are not called and no counter
\* is incremented.
C12_NoClientIPIsBadRequest ==
    (pc # "idle" /\ req.xff = <<>> /\ req.remoteAddr \in {<<>>, IP50}) =>
        /\ pc = "done"
        /\ response.status = 400 /\ response.origin = "gateway"
        /\ geoCalls = <<>>
        /\ gets = <<>>
        /\ upstreamReqs = <<>>
        /\ requests = EmptyBag
        /\ drops = EmptyBag

C12_Witness ==
    /\ pc = "done"
    /\ req = BarePeer
    /\ ip = <<>>
    /\ IsRule(store[GlobalKey], FALSE, 0)
    /\ response = BadRequest

\* C13: when the exchange with the upstream fails at transport level the
\* caller gets 502 from the gateway, whatever path led to the Forwarder
\* (a rule that allows, no rule, or a failed origin lookup or store get);
\* and the gateway answers 502 only then: a failed origin lookup or store get
\* followed by a successful exchange gives the upstream's answer.
C13_UpstreamFailureIs502 ==
    /\ (pc = "done" /\ upstreamResult.err) =>
           /\ upstreamReqs # <<>>
           /\ response.status = 502 /\ response.origin = "gateway"
    /\ (response.status = 502 /\ response.origin = "gateway") =>
           /\ upstreamReqs # <<>>
           /\ upstreamResult.err
    /\ (pc = "done" /\ (OriginLookupFailed \/ redisFailed) /\ ~upstreamResult.err) =>
           /\ response.origin = "upstream"
           /\ response.status = upstreamResult.status

C13_Witness ==
    /\ pc = "done"
    /\ redisFailed
    /\ Len(gets) = 2
    /\ upstreamResult.err
    /\ Len(upstreamReqs) = 1
    /\ response = BadGateway

-----------------------------------------------------------------------------
(* Properties of the Forwarder, checked under SpecForward *)

\* C14: the gateway sends exactly one request to the upstream for an
\* inbound request it forwards, and when the upstream answers it with a 3xx
\* status the caller receives that status and its Location header.
C14_RedirectsNotFollowed ==
    (pc = "done" /\ upstreamReqs # <<>>) =>
        /\ Len(upstreamReqs) = 1
        /\ (~upstreamAnswers[1].err /\ upstreamAnswers[1].status \in 300..399) =>
               /\ response.origin = "upstream"
               /\ response.status = upstreamAnswers[1].status
               /\ response.location = upstreamAnswers[1].location

\* C15: on every path that forwards, each request sent upstream has the
\* method, path and query of the inbound request, and the caller receives
\* the status and body the upstream answered the forwarded request with,
\* whatever the status.
C15_ResponseIsUpstreamAnswer ==
    (pc = "done" /\ upstreamReqs # <<>>) =>
        /\ \A i \in 1..Len(upstreamReqs) :
               /\ upstreamReqs[i].method = req.method
               /\ upstreamReqs[i].url.uri = req.uri
        /\ ~upstreamAnswers[1].err =>
               /\ response.status = upstreamAnswers[1].status
               /\ response.body = upstreamAnswers[1].body

\* C16: the X-Forwarded-For header of a forwarded request is the inbound
\* value followed by ", " and the resolved client address when the inbound
\* request has the header, and the resolved client address alone when it
\* has none.
C16_ClientIPAppended ==
    (pc = "done" /\ upstreamReqs # <<>>) =>
        upstreamReqs[1].xff = IF req.xff # <<>>
                              THEN req.xff \o <<",", " ">> \o ip
                              ELSE ip

\* C17: the Host of a forwarded request is the inbound Host without its
\* port, or the override when one is set; it is never the host of the
\* upstream base URL.
C17_HostPreserved ==
    (pc = "done" /\ upstreamReqs # <<>>) =>
        /\ upstreamReqs[1].host = desiredSNI(req.host)
        /\ upstreamReqs[1].host # UpstreamHost

\* C19: a request to /healthz is answered 200 by the gateway itself,
\* whatever the origin service, the rule store and the upstream do: none of
\* them is called, and no rule drops it.
C19_HealthAnsweredLocally ==
    (pc # "idle" /\ req.uri = "/healthz") =>
        /\ pc = "done"
        /\ response.status = 200 /\ response.origin = "gateway"
        /\ geoCalls = <<>>
        /\ gets = <<>>
        /\ upstreamReqs = <<>>

-----------------------------------------------------------------------------
(* Properties of the shared transport, checked under SpecPool *)

\* C18: every request in flight on the shared transport is sent on a
\* connection whose TLS handshake used the server name of that request:
\* its own Host without the port, or the override.
C18_NoServerNameLeak ==
    \A i \in Slots :
        flights[i].state = "sent" => flights[i].conn = desiredSNI(flights[i].host)

-----------------------------------------------------------------------------
(* Instrumentation, checked under Spec *)

\* the handler has answered a request that has a client address
Decided == pc = "done" /\ ip # <<>>

\* C20: every request that reaches a decision, fail-open and not-found
\* included, is counted once in alak_requests_total, and not before the
\* decision is known; alak_drops_total is incremented once when the request
\* is dropped and not at all otherwise.
C20_CountedOncePerDecision ==
    /\ pc \in {"geo", "redis"} => requests = EmptyBag
    /\ (pc = "forward" \/ Decided) => BagCardinality(requests) = 1
    /\ Decided =>
          BagCardinality(drops) =
             IF response.status = 403 /\ response.origin = "gateway" THEN 1 ELSE 0

-----------------------------------------------------------------------------
(* Liveness of the pipeline, checked under SpecOutage *)

\* C21: a request that has been received is eventually answered, also when
\* the origin-metadata service or the rule store accepts the call and never
\* answers: the handler gives up on the call and forwards the request.
C21_OutageDoesNotStall == (pc # "idle") ~> (pc = "done")

-----------------------------------------------------------------------------
(* Properties of hashIP, checked under SpecHash *)

-----------------------------------------------------------------------------
(* The controller's rule handlers and the store commands they issue *)

StatusCreated == 201

\* the store's clock counts quarter seconds
TicksPerSecond == 4

\* remaining time of a key that has no expiry
NoExpiry == 0 - 1

normalizeRule(r) ==
    [r EXCEPT !.country = ToUpper(TrimSpace(@)),
              !.tsp     = ToLower(TrimSpace(@)),
              !.asn     = ToUpper(TrimSpace(@))]

buildRuleKey(r) == RulePrefix \o r.asn \o Colon \o r.country \o Colon \o r.tsp

\* the identifiers of a DELETE query or of a toggle payload, normalised
NormalizeIds(q) ==
    [asn     |-> ToUpper(TrimSpace(q.asn)),
     country |-> ToUpper(TrimSpace(q.country)),
     tsp     |-> ToLower(TrimSpace(q.tsp))]

IdsMissing(n) == n.asn = <<>> \/ n.country = <<>> \/ n.tsp = <<>>

\* rdb.Set: an expiration of zero (or less) writes the key without expiry
Set(db, key, val, expiration) ==
    [k \in DOMAIN db \cup {key} |->
        IF k = key
        THEN [val |-> val,
              ttl |-> IF expiration > 0 THEN expiration ELSE NoExpiry]
        ELSE db[k]]

\* rdb.Del
Del(db, key) == [k \in DOMAIN db \ {key} |-> db[k]]

\* rdb.TTL: -2 for a key that does not exist, -1 for one without expiry,
\* else the remaining time in whole seconds, rounded to the nearest
TTL(db, key) ==
    IF key \notin DOMAIN db THEN 0 - 2
    ELSE IF db[key].ttl = NoExpiry THEN 0 - 1
    ELSE (db[key].ttl + TicksPerSecond \div 2) \div TicksPerSecond

\* the expiry a rewrite of key uses, in ticks
preserveOrNewTTL(db, key, ifNew) ==
    LET ttl == TTL(db, key)
    IN  IF ttl = 0 - 2 THEN ifNew
        ELSE IF ttl = 0 - 1 THEN 0
        ELSE ttl * TicksPerSecond

\* identifiers as the dashboard or a script sends them
CtlIds ==
    { [asn |-> S_AS1, country |-> S_IR, tsp |-> S_mci],
      [asn |-> <<" ", "a", "s", "1">>, country |-> S_ir \o <<" ">>,
       tsp |-> <<"M", "C", "I">>],
      [asn |-> <<>>, country |-> S_IR, tsp |-> S_mci] }

\* rule bodies; the ttl field is in seconds
RuleBodies ==
    { [asn |-> i.asn, country |-> i.country, tsp |-> i.tsp,
       dropPercent |-> 100, ttl |-> t, enabled |-> e] :
      i \in CtlIds, t \in {0, 1}, e \in BOOLEAN }

\* toggle payloads: enabled is absent ("nil") or given
TogglePayloads ==
    { [asn |-> i.asn, country |-> i.country, tsp |-> i.tsp, enabled |-> e] :
      i \in CtlIds, e \in {"nil", "true", "false"} }

\* POST /rules
Post(r) ==
    /\ LET n == normalizeRule(r)
       IN  rdb' = Set(rdb, buildRuleKey(n), n, n.ttl * TicksPerSecond)
    /\ cresp' = StatusCreated
    /\ UNCHANGED <<cpc, ckey, cur, expiry>>
    /\ UNCHANGED <<pipeVars, keyVars, poolVars, hin, hout, covered>>

\* DELETE /rules
Delete(q) ==
    /\ LET n == NormalizeIds(q)
       IN  IF IdsMissing(n)
           THEN /\ cresp' = StatusBadRequest
                /\ UNCHANGED rdb
           ELSE /\ rdb' = Del(rdb, buildRuleKey(n))
                /\ cresp' = StatusOK
    /\ UNCHANGED <<cpc, ckey, cur, expiry>>
    /\ UNCHANGED <<pipeVars, keyVars, poolVars, hin, hout, covered>>

\* PATCH or PUT /rules, up to the answer of rdb.TTL
PatchTTL(r) ==
    /\ cpc = "idle"
    /\ LET n == normalizeRule(r)
       IN  /\ ckey' = buildRuleKey(n)
           /\ cur' = n
           /\ expiry' = preserveOrNewTTL(rdb, buildRuleKey(n), n.ttl * TicksPerSecond)
    /\ cpc' = "patchSet"
    /\ UNCHANGED <<rdb, cresp>>
    /\ UNCHANGED <<pipeVars, keyVars, poolVars, hin, hout, covered>>

\* PATCH or PUT /rules, the write and the response
PatchSet ==
    /\ cpc = "patchSet"
    /\ rdb' = Set(rdb, ckey, cur, expiry)
    /\ cresp' = StatusOK
    /\ cpc' = "idle"
    /\ ckey' = <<>>
    /\ cur' = NoRule
    /\ expiry' = 0
    /\ UNCHANGED <<pipeVars, keyVars, poolVars, hin, hout, covered>>

\* /toggle-rule, up to the answer of rdb.Get
ToggleGet(p) ==
    /\ cpc = "idle"
    /\ LET n   == NormalizeIds(p)
           key == buildRuleKey(n)
       IN  IF IdsMissing(n)
           THEN /\ cresp' = StatusBadRequest
                /\ UNCHANGED <<cpc, ckey, cur>>
           ELSE IF key \notin DOMAIN rdb
           THEN /\ cresp' = StatusNotFound
                /\ UNCHANGED <<cpc, ckey, cur>>
           ELSE /\ ckey' = key
                /\ cur' = [rdb[key].val EXCEPT
                              !.enabled = IF p.enabled = "nil"
                                          THEN ~@
                                          ELSE p.enabled = "true"]
                /\ cpc' = "toggleTTL"
                /\ UNCHANGED cresp
    /\ UNCHANGED <<rdb, expiry>>
    /\ UNCHANGED <<pipeVars, keyVars, poolVars, hin, hout, covered>>

\* /toggle-rule, the answer of rdb.TTL
ToggleTTL ==
    /\ cpc = "toggleTTL"
    /\ expiry' = preserveOrNewTTL(rdb, ckey, 0)
    /\ cpc' = "toggleSet"
    /\ UNCHANGED <<rdb, ckey, cur, cresp>>
    /\ UNCHANGED <<pipeVars, keyVars, poolVars, hin, hout, covered>>

\* /toggle-rule, the write and the response
ToggleSet ==
    /\ cpc = "toggleSet"
    /\ rdb' = Set(rdb, ckey, cur, expiry)
    /\ cresp' = StatusOK
    /\ cpc' = "idle"
    /\ ckey' = <<>>
    /\ cur' = NoRule
    /\ expiry' = 0
    /\ UNCHANGED <<pipeVars, keyVars, poolVars, hin, hout, covered>>

\* a quarter of a second passes at the store: keys whose time is up go
Tick ==
    /\ \E k \in DOMAIN rdb : rdb[k].ttl > 0
    /\ rdb' = [k \in {x \in DOMAIN rdb : rdb[x].ttl # 1} |->
                 IF rdb[k].ttl = NoExpiry
                 THEN rdb[k]
                 ELSE [rdb[k] EXCEPT !.ttl = @ - 1]]
    /\ UNCHANGED <<cpc, ckey, cur, expiry, cresp>>
    /\ UNCHANGED <<pipeVars, keyVars, poolVars, hin, hout, covered>>

InitCtl ==
    /\ store = [k \in KeySpace |-> Absent]
    /\ Idle
    /\ KeysOff
    /\ PoolOff
    /\ AuxOff

NextCtl ==
    \/ \E r \in RuleBodies : Post(r)
    \/ \E q \in CtlIds : Delete(q)
    \/ \E r \in RuleBodies : PatchTTL(r)
    \/ PatchSet
    \/ \E p \in TogglePayloads : ToggleGet(p)
    \/ ToggleTTL
    \/ ToggleSet
    \/ Tick

SpecCtl == InitCtl /\ [][NextCtl]_vars

-----------------------------------------------------------------------------
(* A rule stored by the controller and the keys the gatekeeper asks for *)

\* the origin response carries the identifiers of the stored rule in some
\* letter case
InitNorm ==
    /\ store = [k \in KeySpace |-> Absent]
    /\ Idle
    /\ kin \in [asn     : {S_AS1, <<"a", "s", "1">>},
               country : {S_IR, S_ir},
               tsp     : {S_mci, <<"M", "C", "I">>, <<"M", "c", "i">>}]
    /\ kout = <<>>
    /\ kpc = "ready"
    /\ PoolOff
    /\ AuxOff

NextNorm ==
    \/ \E r \in RuleBodies : Post(r)
    \/ BuildKeys

SpecNorm == InitNorm /\ [][NextNorm]_vars

-----------------------------------------------------------------------------
(* Properties of the keys of stored rules, checked under SpecNorm *)

\* C23: a rule the controller stored through POST /rules with non-empty asn,
\* country and tsp is held under the first key the gatekeeper builds for an
\* origin response that carries the same three values in any letter case
\* (ASN and country upper-cased, TSP lower-cased on both sides).
C23_StoredRuleUnderFirstKey ==
    kpc = "built" =>
        \A k \in DOMAIN rdb :
            LET r == rdb[k].val
            IN  ( /\ ~IdsMissing(r)
                  /\ ToUpper(kin.asn) = r.asn
                  /\ ToUpper(kin.country) = r.country
                  /\ ToLower(kin.tsp) = r.tsp )
                => kout[1] = k

-----------------------------------------------------------------------------
(* The pipeline over rules whose drop percentage is out of range *)

\* drop_percent is an int: the global rule may hold any
InitRange ==
    /\ store \in
          { [k \in KeySpace |->
                IF k = GlobalKey
                THEN [kind |-> "rule", enabled |-> e, dropPercent |-> dp]
                ELSE Absent] :
              e \in BOOLEAN, dp \in {0 - 5, 0, 50, 100, 101, 250} }
    /\ Idle
    /\ KeysOff
    /\ PoolOff
    /\ AuxOff

NextRange ==
    \/ \E r \in Requests : Receive(r)
    \/ \E a \in GeoAnswers : GeoLookup(a)
    \/ \E fails \in BOOLEAN : RedisGet(fails)
    \/ \E c \in Exchanges : Forward(c)

SpecRange == InitRange /\ [][NextRange]_vars

-----------------------------------------------------------------------------
(* Properties of out-of-range drop percentages, checked under SpecRange *)

Clamp(dp) == IF dp < 0 THEN 0 ELSE IF dp > 100 THEN 100 ELSE dp

\* C24: a matched enabled rule whose drop percentage is outside 0..100 acts
\* as the percentage clamped to that range: the request is dropped exactly
\* when the client's bucket is below the clamped value, so a negative
\* percentage never drops and one above 100 always drops.
C24_OutOfRangeActsClamped ==
    (Decided /\ found /\ rule.enabled) =>
        /\ Dropped <=> hashIP(ip) < Clamp(rule.dropPercent)
        /\ ~Dropped => Allowed
        /\ rule.dropPercent < 0 => Allowed
        /\ rule.dropPercent > 100 => Dropped

C24_Witness ==
    /\ Decided
    /\ found
    /\ rule.enabled
    /\ rule.dropPercent = 250
    /\ hashIP(ip) = 90
    /\ Dropped

-----------------------------------------------------------------------------
(* The controller's handlers run one after the other *)

SeqPost(r) == cpc = "idle" /\ Post(r)

SeqDelete(q) == cpc = "idle" /\ Delete(q)

SeqTick == cpc = "idle" /\ Tick

NextSeq ==
    \/ \E r \in RuleBodies : SeqPost(r)
    \/ \E q \in CtlIds : SeqDelete(q)
    \/ \E r \in RuleBodies : PatchTTL(r)
    \/ PatchSet
    \/ \E p \in TogglePayloads : ToggleGet(p)
    \/ ToggleTTL
    \/ ToggleSet
    \/ SeqTick

SpecSeq == InitCtl /\ [][NextSeq]_vars

-----------------------------------------------------------------------------
(* Properties of rewrites, checked under SpecSeq *)

\* the step in which PATCH, PUT or /toggle-rule writes its key
Rewrites == cpc \in {"patchSet", "toggleSet"} /\ cpc' = "idle"

\* t brought up to the whole second the store reports expiries in
WholeSeconds(t) ==
    ((t + TicksPerSecond - 1) \div TicksPerSecond) * TicksPerSecond

\* C25: when PATCH, PUT or /toggle-rule rewrites a key that exists with a
\* remaining time t > 0, the key keeps an expiry, and one no longer than t
\* (counted in the whole seconds the store reports); a key that exists
\* without expiry stays without expiry whatever ttl the body carries; only
\* for a key that is absent does PATCH or PUT use the ttl of the body.
C25_RewriteKeepsExpiry ==
    [][ Rewrites =>
          /\ (ckey \in DOMAIN rdb /\ rdb[ckey].ttl > 0) =>
                 /\ rdb'[ckey].ttl # NoExpiry
                 /\ rdb'[ckey].ttl <= WholeSeconds(rdb[ckey].ttl)
          /\ (ckey \in DOMAIN rdb /\ rdb[ckey].ttl = NoExpiry) =>
                 rdb'[ckey].ttl = NoExpiry
          /\ (ckey \notin DOMAIN rdb /\ cpc = "patchSet") =>
                 rdb'[ckey].ttl = (IF cur.ttl > 0 THEN cur.ttl * TicksPerSecond
                                   ELSE NoExpiry) ]_vars

-----------------------------------------------------------------------------
(* Where a 403 comes from, checked under Spec *)

\* C26: the gateway answers 403 only on a matched enabled rule: the origin
\* lookup returned 200 with a decodable body, no store get failed, one of
\* the candidate keys was read present and decoded into the rule used, that
\* rule is enabled and the bucket of the client is below its drop
\* percentage; nothing was sent upstream.
C26_ForbiddenOnlyFromRule ==
    (response.status = StatusForbidden /\ response.origin = "gateway") =>
        /\ ~geoAnswer.err
        /\ geoAnswer.status = StatusOK
        /\ geoAnswer.decodable
        /\ ~redisFailed
        /\ found
        /\ bestKey \in KeysOf(ruleKeys)
        /\ store[bestKey].kind = "rule"
        /\ rule = store[bestKey]
        /\ rule.enabled
        /\ hashIP(ip) < rule.dropPercent
        /\ upstreamReqs = <<>>

C26_Witness ==
    /\ response.status = StatusForbidden
    /\ response.origin = "gateway"
    /\ geoAnswer.status = StatusOK
    /\ found
    /\ rule.enabled
    /\ rule.dropPercent = 50
    /\ hashIP(ip) = 10

-----------------------------------------------------------------------------
(* The pipeline with healthy collaborators and the global full-drop rule *)

Digits == <<"0", "1", "2", "3", "4", "5", "6", "7", "8", "9">>

RECURSIVE DecimalValue(_)
DecimalValue(f) ==
    IF f = <<>> THEN 0
    ELSE 10 * DecimalValue(SubSeq(f, 1, Len(f) - 1))
         + (IndexIn(f[Len(f)], Digits) - 1)

\* the fields of s between the dots
RECURSIVE DotFields(_)
DotFields(s) ==
    IF \E i \in 1..Len(s) : s[i] = "."
    THEN LET i == CHOOSE j \in 1..Len(s) :
                     s[j] = "." /\ \A k \in 1..(j - 1) : s[k] # "."
         IN  <<SubSeq(s, 1, i - 1)>> \o DotFields(SubSeq(s, i + 1, Len(s)))
    ELSE <<s>>

\* net.ParseIP on the strings the requests carry (none of them is in a
\* colon form): the address, or nil (the empty sequence)
ParseIP(s) ==
    LET fs == DotFields(s)
        \* one to three digits, no leading zero, at most 255
        IsDecimalByte(f) ==
            /\ Len(f) \in 1..3
            /\ \A i \in 1..Len(f) : IndexIn(f[i], Digits) > 0
            /\ Len(f) > 1 => f[1] # "0"
            /\ DecimalValue(f) <= 255
    IN  IF Len(fs) = 4 /\ \A i \in 1..4 : IsDecimalByte(fs[i])
        THEN s
        ELSE <<>>

\* alak-geo's lookupHandler for ?ip=ipStr, its databases answering with b
lookupHandler(ipStr, b) ==
    IF ParseIP(ipStr) = <<>>
    THEN [err |-> FALSE, status |-> StatusBadRequest, decodable |-> FALSE,
          body |-> EmptyMeta]
    ELSE [err |-> FALSE, status |-> StatusOK, decodable |-> TRUE, body |-> b]

FullDrop == [kind |-> "rule", enabled |-> TRUE, dropPercent |-> 100]

\* the store holds rule:*:*:* enabled with drop_percent 100, and nothing else
InitGlobal ==
    /\ store = [k \in KeySpace |-> IF k = GlobalKey THEN FullDrop ELSE Absent]
    /\ Idle
    /\ KeysOff
    /\ PoolOff
    /\ AuxOff

\* the origin-metadata service, the rule store and the upstream are healthy
NextGlobal ==
    \/ \E r \in [xff : ForwardXFFs \cup { <<"x">>, <<"1", ".", "2">> },
                  remoteAddr : RemoteAddrs, method : {"GET"}, uri : {"/"},
                  host : {HostA}] : Receive(r)
    \/ \E b \in GeoBodies : GeoLookup(lookupHandler(ip, b))
    \/ RedisGet(FALSE)
    \/ \E c \in Exchanges \ {<<UpstreamError>>} : Forward(c)

SpecGlobal == InitGlobal /\ [][NextGlobal]_vars

-----------------------------------------------------------------------------
(* Properties of the global rule, checked under SpecGlobal *)

\* C27: with rule:*:*:* enabled at drop_percent 100 and every collaborator
\* healthy, a request is answered 403 whatever its X-Forwarded-For header
\* holds: one address, a comma-separated chain, or a string that is no
\* address.
C27_GlobalRuleDropsAll ==
    (pc = "done" /\ req.xff # <<>>) =>
        (response.status = StatusForbidden /\ response.origin = "gateway")

-----------------------------------------------------------------------------
(* Properties of /toggle-rule among concurrent requests, checked under SpecCtl *)

\* the step in which /toggle-rule writes its key
ToggleWrites == cpc = "toggleSet" /\ cpc' = "idle"

\* C28: the write of /toggle-rule never brings back a rule that was deleted
\* or has expired since the handler read it: the key it writes exists at
\* the time of the write; and a key that then has an expiry has one after
\* the write.
C28_ToggleNeverResurrects ==
    [][ ToggleWrites =>
          /\ ckey \in DOMAIN rdb
          /\ rdb[ckey].ttl > 0 => rdb'[ckey].ttl > 0 ]_vars

-----------------------------------------------------------------------------
(* The pipeline while rules are stored and deleted *)

\* what the origin-metadata service answers for the clients of this part
RaceBody == [asn |-> S_AS1, country |-> S_ir, tsp |-> <<" ">> \o S_mci]

\* the candidate keys of their requests
RaceKeys == KeysOf(buildRuleKeys(CleanMeta(RaceBody)))

\* some candidate key holds an enabled rule with drop_percent 100
Covers(st) == \E k \in RaceKeys : st[k] = FullDrop

\* the controller's POST /rules stores a full-drop rule under k
AdminPost(k) ==
    /\ store' = [store EXCEPT ![k] = FullDrop]
    /\ covered' = (covered /\ Covers(store'))
    /\ UNCHANGED <<pc, req, ip, geoCalls, geoAnswer, meta, ruleKeys, idx, found,
                   rule, bestKey, gets, redisFailed, requests, drops,
                   upstreamReqs, upstreamAnswers, upstreamResult, response>>
    /\ UNCHANGED <<keyVars, poolVars, hin, hout, ctlVars>>

\* the controller's DELETE /rules removes k
AdminDelete(k) ==
    /\ store' = [store EXCEPT ![k] = Absent]
    /\ covered' = (covered /\ Covers(store'))
    /\ UNCHANGED <<pc, req, ip, geoCalls, geoAnswer, meta, ruleKeys, idx, found,
                   rule, bestKey, gets, redisFailed, requests, drops,
                   upstreamReqs, upstreamAnswers, upstreamResult, response>>
    /\ UNCHANGED <<keyVars, poolVars, hin, hout, ctlVars>>

InitRace ==
    /\ store \in { [k \in KeySpace |-> IF k \in ks THEN FullDrop ELSE Absent] :
                    ks \in SUBSET RaceKeys }
    /\ covered = Covers(store)
    /\ Idle
    /\ KeysOff
    /\ PoolOff
    /\ HashOff
    /\ CtlOff

\* every origin lookup is answered 200 with RaceBody; store and upstream are
\* healthy
NextRace ==
    \/ \E r \in [xff : {IP10, IP90}, remoteAddr : {IP50 \o <<":", "9">>},
                  method : {"GET"}, uri : {"/"}, host : {HostA}] : Receive(r)
    \/ GeoLookup([err |-> FALSE, status |-> StatusOK, decodable |-> TRUE,
                  body |-> RaceBody])
    \/ RedisGet(FALSE)
    \/ \E c \in Exchanges \ {<<UpstreamError>>} : Forward(c)
    \/ \E k \in RaceKeys : AdminPost(k)
    \/ \E k \in RaceKeys : AdminDelete(k)

SpecRace == InitRace /\ [][NextRace]_vars

-----------------------------------------------------------------------------
(* Properties of the lookup among rule changes, checked under SpecRace *)

\* C29: when at every instant of the handling of a request some candidate
\* key of it holds an enabled rule with drop_percent 100, the request is
\* answered 403, whatever rules are stored and deleted meanwhile.
C29_CoveredRequestDropped ==
    (pc = "done" /\ covered) =>
        (response.status = StatusForbidden /\ response.origin = "gateway")

-----------------------------------------------------------------------------
(* POST followed by DELETE, checked under SpecSeq *)

\* C30: a DELETE with the asn, country and tsp of a rule stored through POST
\* leaves no key for that rule, for every value of the three fields POST
\* accepts: empty ones, other letter case and surrounding whitespace
\* included.
C30_DeleteRemovesPosted ==
    [][ \A q \in CtlIds :
          ( /\ SeqDelete(q)
            /\ buildRuleKey(NormalizeIds(q)) \in DOMAIN rdb )
          => buildRuleKey(NormalizeIds(q)) \notin DOMAIN rdb' ]_vars

====
